---- MODULE Spec2Model ----
(***************************************************************************)
(* State-machine model of the two optimizers of metaopts:                  *)
(*   avoa  (src/metaopts/algorithms/avoa.py)  African Vultures Optimization *)
(*   stbo  (src/metaopts/algorithms/stbo.py)  Sewing Training-Based Optim.  *)
(*                                                                         *)
(* float32 values are modelled in fixed point: the integer v stands for    *)
(* v / Scale.  Magnitudes beyond Inf saturate to +-Inf, NaN is a value of  *)
(* its own that every operation propagates and every comparison rejects.   *)
(* Random draws are inputs, taken from small sets.                         *)
(***************************************************************************)
EXTENDS Integers, Sequences, FiniteSets, TLC

\* ------------------------------------------------------------------ bounds
PopulationSize == 2
MaxGenerationLimit == 2

\* ------------------------------------------------------- float32, fixed point
Scale == 1000
Inf == 40000
NaN == 99999

Abs(a) == IF a = NaN THEN NaN ELSE IF a < 0 THEN -a ELSE a

IsInf(a) == a = Inf \/ a = -Inf

Sign(a) == IF a < 0 THEN -1 ELSE IF a > 0 THEN 1 ELSE 0

Sat(v) == IF v > Inf THEN Inf ELSE IF v < -Inf THEN -Inf ELSE v

\* n / d rounded to the nearest integer (d # 0)
RoundDiv(n, d) ==
    LET an == IF n < 0 THEN -n ELSE n
        ad == IF d < 0 THEN -d ELSE d
        q  == an \div ad
        r  == an % ad
        m  == IF 2 * r >= ad THEN q + 1 ELSE q
    IN  Sign(n) * Sign(d) * m

Neg(a) == IF a = NaN THEN NaN ELSE -a

Add(a, b) ==
    IF a = NaN \/ b = NaN THEN NaN
    ELSE IF IsInf(a) /\ IsInf(b) /\ a # b THEN NaN
    ELSE IF IsInf(a) THEN a
    ELSE IF IsInf(b) THEN b
    ELSE Sat(a + b)

Sub(a, b) == Add(a, Neg(b))

Mul(a, b) ==
    IF a = NaN \/ b = NaN THEN NaN
    ELSE IF IsInf(a) \/ IsInf(b)
         THEN (IF a = 0 \/ b = 0 THEN NaN ELSE Sign(a) * Sign(b) * Inf)
    ELSE Sat(RoundDiv(a * b, Scale))

Div(a, b) ==
    IF a = NaN \/ b = NaN THEN NaN
    ELSE IF IsInf(a) THEN (IF IsInf(b) THEN NaN
                           ELSE IF b < 0 THEN -a ELSE a)
    ELSE IF IsInf(b) THEN 0
    ELSE IF b = 0 THEN (IF a = 0 THEN NaN ELSE Sign(a) * Inf)
    ELSE Sat(RoundDiv(a * Scale, b))

\* comparisons: false as soon as one side is NaN
Lt(a, b) == a # NaN /\ b # NaN /\ a < b

Le(a, b) == a # NaN /\ b # NaN /\ a <= b

Gt(a, b) == Lt(b, a)

Ge(a, b) == Le(b, a)

Minimum(a, b) == IF a = NaN \/ b = NaN THEN NaN ELSE IF a < b THEN a ELSE b

Maximum(a, b) == IF a = NaN \/ b = NaN THEN NaN ELSE IF a > b THEN a ELSE b

\* tf.clip_by_value(t, lo, hi) = maximum(minimum(t, hi), lo)
ClipByValue(t, lo, hi) == Maximum(Minimum(t, hi), lo)

\* an int or float counter as a float32
ToFloat(n) == n * Scale

Pi == 3142

\* sin on [0, pi], Bhaskara's rational approximation 16q / (5 pi^2 - 4q), q = y (pi - y)
SinHalfTurn(y) ==
    LET q == RoundDiv(y * (Pi - y), Scale)
    IN  RoundDiv(16 * q * Scale, 5 * RoundDiv(Pi * Pi, Scale) - 4 * q)

\* tf.sin
Sin(a) ==
    IF a = NaN \/ IsInf(a) THEN NaN
    ELSE LET y == a % (2 * Pi)
         IN  IF y <= Pi THEN SinHalfTurn(y) ELSE -SinHalfTurn(y - Pi)

\* tf.cos
Cos(a) == IF a = NaN \/ IsInf(a) THEN NaN ELSE Sin(a + RoundDiv(Pi, 2))

\* tf.round: half to even; q is a float32, the result an integer
RoundHalfEven(q) ==
    LET f == q \div Scale
        r == q % Scale
    IN  IF 2 * r < Scale THEN f
        ELSE IF 2 * r > Scale THEN f + 1
        ELSE IF f % 2 = 0 THEN f ELSE f + 1

\* ------------------------------------------------------------ the arguments
\* model_weights: two parameter tensors, of 2 elements and of 1 element
Shapes == <<2, 1>>

Slots == 1..Len(Shapes)

Elems(s) == 1..Shapes[s]

Individuals == 0..(PopulationSize - 1)

\* the weights of the model before the call
InitialWeights == [s \in Slots |-> [k \in Elems(s) |-> 250]]

Zeros == [s \in Slots |-> [k \in Elems(s) |-> 0]]

\* model_fitness_fn, a deterministic black box: here the L1 norm of the weights
Cells == UNION {{<<s, k>> : k \in Elems(s)} : s \in Slots}

RECURSIVE SumAbs(_, _)
SumAbs(w, S) ==
    IF S = {} THEN 0
    ELSE LET e == CHOOSE c \in S : TRUE
         IN  Add(Abs(w[e[1]][e[2]]), SumAbs(w, S \ {e}))

ModelFitness(w) == SumAbs(w, Cells)

\* the defaults of the signatures
DefaultConfig ==
    [generation_limit |-> 1, fitness_limit |-> -Inf, lb |-> -1000, ub |-> 1000,
     P1 |-> 600, P2 |-> 400, P3 |-> 600,
     fitness_log_frequency |-> -1, best_individual_save_frequency |-> -1]

\* fitness_limit: never reached, or 1.0
FitnessLimits == {-Inf, 1000}

\* (fitness_log_frequency, best_individual_save_frequency)
Frequencies == {<<-1, -1>>, <<1, 2>>}

ValidConfigs ==
    {[DefaultConfig EXCEPT !.generation_limit = t, !.fitness_limit = fl] :
        t \in 1..MaxGenerationLimit, fl \in FitnessLimits}
    \cup
    {[DefaultConfig EXCEPT !.fitness_log_frequency = fr[1],
                           !.best_individual_save_frequency = fr[2]] :
        fr \in Frequencies}

\* configurations the documentation rules out: lb >= ub, a probability outside
\* [0, 1], generation_limit <= 0
InvalidConfigs(a) ==
    {[DefaultConfig EXCEPT !.lb = 1000, !.ub = -1000],
     [DefaultConfig EXCEPT !.generation_limit = -1]}
    \cup (IF a = "avoa" THEN {[DefaultConfig EXCEPT !.P1 = 1500, !.P2 = -500]} ELSE {})

ValidConfig(c) ==
    /\ c.generation_limit > 0
    /\ c.lb < c.ub
    /\ \A p \in {c.P1, c.P2, c.P3} : 0 <= p /\ p <= Scale

VARIABLES
    algo,             \* "avoa" or "stbo": the function called
    cfg,              \* its arguments
    pc,               \* the statement the call is at
    model_weights,    \* the target parameters
    X,                \* the population: P of avoa, X of stbo; X[s][i][k]
    fitness_values,   \* fitness_values of avoa, F of stbo
    best_fitness,
    gen,
    best_vultures,    \* avoa: best_vultures[s][0..1][k]
    F,                \* avoa: the scalar F of Eq. (4)
    i,                \* avoa: the individual of the sweep
    XP,               \* stbo: the proposals
    FP,               \* stbo: their fitness
    SI,               \* stbo: the instructor of each individual
    obs               \* what the collaborators saw of the run (history)

vars == <<algo, cfg, pc, model_weights, X, fitness_values, best_fitness, gen,
          best_vultures, F, i, XP, FP, SI, obs>>

T == cfg.generation_limit

Candidate(pop, j) == [s \in Slots |-> pop[s][j]]

ZeroPopulation == [s \in Slots |-> [j \in Individuals |-> Zeros[s]]]

ZeroVector == [j \in Individuals |-> 0]

\* --------------------------------------------------------- the collaborators
\* mou.update_population_fitness: one fitness per candidate, in order
PopulationFitness(pop) == [j \in Individuals |-> ModelFitness(Candidate(pop, j))]

\* ... which materializes each candidate into model_weights: the last one stays
LastMaterialized(pop) == Candidate(pop, PopulationSize - 1)

\* the seeds of the random streams of the initial population
Seeds == {0, 1}

\* tf.random.uniform((N,) + weights.shape, 0, 1) under seed sd
InitialUniform(sd) ==
    [s \in Slots |-> [j \in Individuals |-> [k \in Elems(s) |->
        ((sd + j + 2 * s + k) % 4) * (Scale \div 4)]]]

\* mou.create_population(model_weights, N, False): uniform in [-1, 1]; the call
\* passes no bounds
CreatePopulation(sd) ==
    [s \in Slots |-> [j \in Individuals |-> [k \in Elems(s) |->
        Add(-Scale, Mul(InitialUniform(sd)[s][j][k], 2 * Scale))]]]

\* tf.reduce_min
RECURSIVE ReduceMinUpTo(_, _)
ReduceMinUpTo(v, n) ==
    IF n = 0 THEN v[0] ELSE Minimum(v[n], ReduceMinUpTo(v, n - 1))

ReduceMin(v) == ReduceMinUpTo(v, PopulationSize - 1)

\* j comes before k in an ascending sort of v: lower value first, then lower
\* index; NaN last
Before(v, j, k) ==
    \/ Lt(v[j], v[k])
    \/ v[j] # NaN /\ v[k] = NaN
    \/ (v[j] = v[k] /\ j < k)

\* tf.argsort(v): position r (0-based) holds the index with r indices before it
ArgSort(v) ==
    [r \in Individuals |->
        CHOOSE j \in Individuals :
            Cardinality({k \in Individuals : k # j /\ Before(v, k, j)}) = r]

\* tf.argmin
ArgMin(v) == ArgSort(v)[0]

\* the smaller of the minimum seen so far and the values of one more pass
SeenAfter(seen, v) ==
    LET m == ReduceMin([j \in Individuals |-> IF v[j] = NaN THEN Inf ELSE v[j]])
    IN  IF m < seen THEN m ELSE seen

NoObservation ==
    [evals |-> 0, min_seen |-> Inf, logs |-> 0, forced_logs |-> 0, saves |-> 0,
     final_saves |-> 0, applies |-> 0, handed |-> Zeros, updates |-> 0,
     generations |-> 0, visited |-> <<>>, eq |-> "none", u |-> 0,
     selection_fitness |-> ZeroVector, accepted |-> [j \in Individuals |-> FALSE]]

\* one more call of mou.update_population_fitness, which produced v
Evaluated(o, v) ==
    [o EXCEPT !.evals = @ + 1, !.min_seen = SeenAfter(@, v)]

\* ------------------------------------------------------------------- Init
\* the call of avoa or of stbo, before its first statement
Init ==
    /\ algo \in {"avoa", "stbo"}
    /\ cfg \in ValidConfigs \cup InvalidConfigs(algo)
    /\ pc = "start"
    /\ model_weights = InitialWeights
    /\ X = ZeroPopulation
    /\ fitness_values = ZeroVector
    /\ best_fitness = 0
    /\ gen = 0
    /\ best_vultures = [s \in Slots |-> [b \in 0..1 |-> Zeros[s]]]
    /\ F = 0
    /\ i = 0
    /\ XP = ZeroPopulation
    /\ FP = ZeroVector
    /\ SI = ZeroVector
    /\ obs = NoObservation

\* ------------------------------------------------------------------- avoa
\* lines 174-212: the population and the other variables of the pseudo-code
AvoaSetup ==
    /\ pc = "start"
    /\ algo = "avoa"
    /\ \E sd \in Seeds : X' = CreatePopulation(sd)
    /\ fitness_values' = ZeroVector
    /\ best_vultures' = [s \in Slots |-> [b \in 0..1 |-> Zeros[s]]]
    /\ F' = 0
    /\ best_fitness' = 0
    /\ gen' = 0
    /\ i' = 0
    /\ pc' = "loop"
    /\ UNCHANGED <<algo, cfg, model_weights, XP, FP, SI, obs>>

\* update_best_vultures: the candidates of the two lowest fitness values
UpdateBestVultures(fv, pop) ==
    LET best_indices == ArgSort(fv)
    IN  [s \in Slots |-> [b \in 0..1 |-> pop[s][best_indices[b]]]]

\* while gen <= T: the fitness pass, the best vultures, the best fitness
AvoaEvaluate ==
    /\ pc = "loop"
    /\ algo = "avoa"
    /\ Le(ToFloat(gen), ToFloat(T))
    /\ LET fv == PopulationFitness(X)
       IN  /\ fitness_values' = fv
           /\ model_weights' = LastMaterialized(X)
           /\ best_vultures' = UpdateBestVultures(fv, X)
           /\ best_fitness' = ReduceMin(fv)
           /\ obs' = [Evaluated(obs, fv) EXCEPT !.generations = @ + 1]
    /\ pc' = "hooks"
    /\ UNCHANGED <<algo, cfg, X, gen, F, i, XP, FP, SI>>

\* while gen <= T: the condition is false
AvoaLoopExit ==
    /\ pc = "loop"
    /\ algo = "avoa"
    /\ ~Le(ToFloat(gen), ToFloat(T))
    /\ pc' = "apply"
    /\ UNCHANGED <<algo, cfg, model_weights, X, fitness_values, best_fitness, gen,
                   best_vultures, F, i, XP, FP, SI, obs>>

\* the periodic calls of mou.log_fitness_value and mou.save_individual
PeriodicHooks(o, c, g) ==
    [o EXCEPT
        !.logs = IF c.fitness_log_frequency > 0 THEN @ + 1 ELSE @,
        !.saves = IF /\ c.best_individual_save_frequency > 0
                     /\ g % c.best_individual_save_frequency = 0
                  THEN @ + 1 ELSE @]

\* lines 233-254
AvoaHooks ==
    /\ pc = "hooks"
    /\ obs' = PeriodicHooks(obs, cfg, gen)
    /\ pc' = "stop_check"
    /\ UNCHANGED <<algo, cfg, model_weights, X, fitness_values, best_fitness, gen,
                   best_vultures, F, i, XP, FP, SI>>

\* the sweep starts whatever the best fitness
AvoaStopCheckNever ==
    /\ pc = "stop_check"
    /\ pc' = "sweep"
    /\ i' = 0
    /\ obs' = [obs EXCEPT !.visited = <<>>]
    /\ UNCHANGED <<algo, cfg, model_weights, X, fitness_values, best_fitness, gen,
                   best_vultures, F, XP, FP, SI>>

\* lines 256-261: the additional stopping condition, else the sweep starts
AvoaStopCheck ==
    /\ pc = "stop_check"
    /\ IF Lt(best_fitness, cfg.fitness_limit)
       THEN /\ pc' = "apply"
            /\ UNCHANGED <<i, obs>>
       ELSE /\ pc' = "sweep"
            /\ i' = 0
            /\ obs' = [obs EXCEPT !.visited = <<>>]
    /\ UNCHANGED <<algo, cfg, model_weights, X, fitness_values, best_fitness, gen,
                   best_vultures, F, XP, FP, SI>>

\* eq_1: R is one of the two best vultures; sel is the categorical draw
AvoaEq1(bv, sel) == [s \in Slots |-> bv[s][sel]]

\* sin(pi/2 x)^w + cos(pi/2 x) - 1 for w = 2.5 at x = 0/12 .. 12/12
Eq3Curve == <<0, -2, 0, 14, 43, 82, 128, 169, 198, 203, 176, 109, 0>>

\* eq_3
AvoaEq3(h, g, t) == Mul(h, Eq3Curve[RoundDiv(12 * g, t) + 1])

\* eq_4
AvoaEq4(rand_1, z, h, g, t) ==
    Add(Mul(Mul(Add(Mul(2 * Scale, rand_1), Scale), z),
            Sub(Scale, Div(ToFloat(g), ToFloat(t)))),
        AvoaEq3(h, g, t))

\* eq_7: D, with X = 2 * uniform
AvoaEq7(u7, r, p) ==
    [k \in DOMAIN p |-> Abs(Sub(Mul(Mul(2 * Scale, u7), r[k]), p[k]))]

\* eq_6
AvoaEq6(f, u7, r, p) ==
    LET d == AvoaEq7(u7, r, p)
    IN  [k \in DOMAIN p |-> Sub(r[k], Mul(d[k], f))]

\* eq_8
AvoaEq8(f, rand_2, rand_3, lb, ub, r) ==
    [k \in DOMAIN r |->
        Add(Sub(r[k], f), Mul(rand_2, Add(Mul(Sub(ub, lb), rand_3), lb)))]

\* eq_10
AvoaEq10(f, u7, rand_4, r, p) ==
    LET d == AvoaEq7(u7, r, p)
    IN  [k \in DOMAIN p |-> Sub(Mul(d[k], Add(f, rand_4)), Sub(r[k], p[k]))]

\* eq_12: S[0] and S[1]
AvoaEq12(rand_5, rand_6, r, p) ==
    <<[k \in DOMAIN p |->
          Mul(Mul(r[k], Div(Mul(rand_5, p[k]), 2 * Pi)), Cos(p[k]))],
      [k \in DOMAIN p |->
          Mul(Mul(r[k], Div(Mul(rand_6, p[k]), 2 * Pi)), Sin(p[k]))]>>

\* eq_13
AvoaEq13(rand_5, rand_6, r, p) ==
    LET S == AvoaEq12(rand_5, rand_6, r, p)
    IN  [k \in DOMAIN p |-> Sub(r[k], Add(S[1][k], S[2][k]))]

\* eq_15: A[0] and A[1]
AvoaEq15(f, bv, p) ==
    [b \in 0..1 |-> [k \in DOMAIN p |->
        Sub(bv[b][k],
            Mul(Div(Mul(bv[b][k], p[k]), Sub(bv[b][k], Mul(p[k], p[k]))), f))]]

\* eq_16
AvoaEq16(f, bv, p) ==
    LET A == AvoaEq15(f, bv, p)
    IN  [k \in DOMAIN p |-> Div(Add(A[0][k], A[1][k]), 2 * Scale)]

\* calculate_sigma() for beta = 1.5
Sigma == 352

\* tf.pow(v, 1/beta) for beta = 1.5 and 0 <= v < 1: the cube root of v^2
PowInvBeta(v) ==
    CHOOSE c \in 0..Scale :
        c * c * c <= v * v * Scale /\ v * v * Scale < (c + 1) * (c + 1) * (c + 1)

\* eq_18: the Levy flight; u and v are the uniform draws
AvoaEq18(u, v, p) ==
    [k \in DOMAIN p |->
        Mul(Scale \div 100, Div(Mul(u, Sigma), PowInvBeta(Abs(v))))]

\* eq_17
AvoaEq17(f, u, v, r, p) ==
    LET l == AvoaEq18(u, v, p)
    IN  [k \in DOMAIN p |->
            Sub(r[k], Mul(Mul(Abs(Sub(r[k], p[k])), f), l[k]))]

\* the dispatch with |F| > 1 and |F| > 0.5
AvoaDispatchStrict(f, u, c) ==
    IF Gt(Abs(f), Scale)
    THEN (IF Ge(c.P1, u) THEN "eq_6" ELSE "eq_8")
    ELSE IF Gt(Abs(f), Scale \div 2)
         THEN (IF Ge(c.P2, u) THEN "eq_10" ELSE "eq_13")
         ELSE (IF Ge(c.P3, u) THEN "eq_16" ELSE "eq_17")

\* lines 270-312: the equation that |F| and the uniform draw u select
AvoaDispatch(f, u, c) ==
    IF Ge(Abs(f), Scale)
    THEN (IF Ge(c.P1, u) THEN "eq_6" ELSE "eq_8")
    ELSE IF Ge(Abs(f), Scale \div 2)
         THEN (IF Ge(c.P2, u) THEN "eq_10" ELSE "eq_13")
         ELSE (IF Ge(c.P3, u) THEN "eq_16" ELSE "eq_17")

\* the draws of one step of the sweep: sel of eq_1; rand_1, z, h of eq_4 and
\* eq_3; u of the dispatch; a and b, the uniform draws of the equation applied
AvoaDrawTable ==
    <<[sel |-> 0, rand_1 |-> 500, z |-> -1000, h |-> 1000, u |-> 600, a |-> 500, b |-> 250],
      [sel |-> 1, rand_1 |-> 500, z |-> 500, h |-> -2000, u |-> 750, a |-> 250, b |-> 500],
      [sel |-> 0, rand_1 |-> 0, z |-> 500, h |-> 0, u |-> 400, a |-> 750, b |-> 500],
      [sel |-> 1, rand_1 |-> 0, z |-> -750, h |-> 1000, u |-> 750, a |-> 500, b |-> 0]>>

\* the draws the random stream may give to individual j of generation g: two
\* rows of the table, the next two at the next step
AvoaDraws(g, j) ==
    LET n == g * PopulationSize + j
    IN  {AvoaDrawTable[(n % 4) + 1], AvoaDrawTable[((n + 1) % 4) + 1]}

\* the candidate an equation writes to p[i], one parameter tensor at a time
AvoaMove(e, f, d, c, bv, r, p) ==
    CASE e = "eq_6"  -> AvoaEq6(f, d.a, r, p)
      [] e = "eq_8"  -> AvoaEq8(f, d.a, d.b, c.lb, c.ub, r)
      [] e = "eq_10" -> AvoaEq10(f, d.a, d.b, r, p)
      [] e = "eq_13" -> AvoaEq13(d.a, d.b, r, p)
      [] e = "eq_16" -> AvoaEq16(f, bv, p)
      [] e = "eq_17" -> AvoaEq17(f, d.a, d.b, r, p)

\* lines 262-314: one individual of the sweep
AvoaStep ==
    /\ pc = "sweep"
    /\ i < PopulationSize
    /\ \E d \in AvoaDraws(gen, i) :
        LET R == AvoaEq1(best_vultures, d.sel)
            f == AvoaEq4(d.rand_1, d.z, d.h, gen, T)
            e == AvoaDispatch(f, d.u, cfg)
        IN  /\ F' = f
            /\ X' = [s \in Slots |->
                       [X[s] EXCEPT ![i] =
                           AvoaMove(e, f, d, cfg, best_vultures[s], R[s], X[s][i])]]
            /\ obs' = [obs EXCEPT !.visited = Append(@, i), !.eq = e, !.u = d.u,
                                  !.updates = @ + 1]
    /\ i' = i + 1
    /\ UNCHANGED <<algo, cfg, pc, model_weights, fitness_values, best_fitness, gen,
                   best_vultures, XP, FP, SI>>

\* line 316, after the sweep
AvoaGenEnd ==
    /\ pc = "sweep"
    /\ ~(i < PopulationSize)
    /\ gen' = gen + 1
    /\ pc' = "loop"
    /\ UNCHANGED <<algo, cfg, model_weights, X, fitness_values, best_fitness,
                   best_vultures, F, i, XP, FP, SI, obs>>

\* ------------------------------------------------------------------- stbo
\* eq_2 without transfer learning: lb + uniform * (ub - lb)
StboEq2(sd, lb, ub) ==
    [s \in Slots |-> [j \in Individuals |-> [k \in Elems(s) |->
        Add(lb, Mul(InitialUniform(sd)[s][j][k], Sub(ub, lb)))]]]

\* lines 110-136: the population, its fitness, the other variables
StboSetup ==
    /\ pc = "start"
    /\ algo = "stbo"
    /\ \E sd \in Seeds :
        LET x0 == StboEq2(sd, cfg.lb, cfg.ub)
            f0 == PopulationFitness(x0)
        IN  /\ X' = x0
            /\ fitness_values' = f0
            /\ model_weights' = LastMaterialized(x0)
            /\ XP' = x0
            /\ FP' = f0
            /\ best_fitness' = ReduceMin(f0)
            /\ obs' = Evaluated(obs, f0)
    /\ SI' = ZeroVector
    /\ gen' = 0
    /\ pc' = "loop"
    /\ UNCHANGED <<algo, cfg, best_vultures, F, i>>

\* the loop condition with gen < T
StboContinueStrict == Gt(best_fitness, cfg.fitness_limit) /\ Lt(ToFloat(gen), ToFloat(T))

\* while best_fitness > fitness_limit and gen <= T
StboContinue == Gt(best_fitness, cfg.fitness_limit) /\ Le(ToFloat(gen), ToFloat(T))

StboLoopEnter ==
    /\ pc = "loop"
    /\ algo = "stbo"
    /\ StboContinue
    /\ pc' = "update_SI"
    /\ obs' = [obs EXCEPT !.generations = @ + 1]
    /\ UNCHANGED <<algo, cfg, model_weights, X, fitness_values, best_fitness, gen,
                   best_vultures, F, i, XP, FP, SI>>

StboLoopExit ==
    /\ pc = "loop"
    /\ algo = "stbo"
    /\ ~StboContinue
    /\ pc' = "apply"
    /\ UNCHANGED <<algo, cfg, model_weights, X, fitness_values, best_fitness, gen,
                   best_vultures, F, i, XP, FP, SI, obs>>

\* eq_4 with F <= F[index]
StboEq4NotStrict(fv, index) ==
    LET CSI == {j \in Individuals : Le(fv[j], fv[index])}
    IN  IF CSI = {} THEN {index} ELSE CSI

\* eq_4: the candidate instructors of individual index
StboEq4(fv, index) ==
    LET CSI == {j \in Individuals : Lt(fv[j], fv[index])}
    IN  IF CSI = {} THEN {index} ELSE CSI

\* update_SI: each individual draws its instructor among its candidates
StboUpdateSI ==
    /\ pc = "update_SI"
    /\ SI' \in [Individuals -> Individuals]
    /\ \A j \in Individuals : SI'[j] \in StboEq4(fitness_values, j)
    /\ obs' = [obs EXCEPT !.selection_fitness = fitness_values]
    /\ pc' = "eq_5"
    /\ UNCHANGED <<algo, cfg, model_weights, X, fitness_values, best_fitness, gen,
                   best_vultures, F, i, XP, FP>>

\* eq_5 on one parameter tensor x: x + r * (gather(x, SI) - I * x)
StboEq5(x, si, r, I) ==
    [j \in Individuals |-> [k \in DOMAIN x[j] |->
        Add(x[j][k], Mul(r[j][k], Sub(x[si[j]][k], Mul(I[j][k], x[j][k]))))]]

\* a tensor of the shape of parameter tensor s, v everywhere
Full(s, v) == [j \in Individuals |-> [k \in Elems(s) |-> v]]

\* the draws (r, I) of eq_5
Eq5Draws == {<<500, 1>>, <<500, 2>>}

\* Phase 1: the proposals of eq_5
StboTraining ==
    /\ pc = "eq_5"
    /\ \E d \in Eq5Draws :
        XP' = [s \in Slots |->
                 StboEq5(X[s], SI, Full(s, d[1]), Full(s, ToFloat(d[2])))]
    /\ pc' = "accept_1"
    /\ UNCHANGED <<algo, cfg, model_weights, X, fitness_values, best_fitness, gen,
                   best_vultures, F, i, FP, SI, obs>>

\* update_improved_positions: X and F after the step, for the fitness fp of XP
ImprovedPositions(f, fp) == [j \in Individuals |-> Lt(fp[j], f[j])]

\* tf.where that reaches the first parameter tensor only
WherePopulationFirstTensor(improved, xp, x) ==
    [s \in Slots |-> [j \in Individuals |->
        IF improved[j] /\ s = 1 THEN xp[s][j] ELSE x[s][j]]]

WherePopulation(improved, xp, x) ==
    [s \in Slots |-> [j \in Individuals |-> IF improved[j] THEN xp[s][j] ELSE x[s][j]]]

WhereVector(improved, fp, f) ==
    [j \in Individuals |-> IF improved[j] THEN fp[j] ELSE f[j]]

AfterAccept == [accept_1 |-> "eq_7_and_8", accept_2 |-> "eq_10", accept_3 |-> "gen_end"]

\* update_improved_positions, after each of the three phases
StboAccept ==
    /\ pc \in DOMAIN AfterAccept
    /\ LET f  == PopulationFitness(X)
           fp == PopulationFitness(XP)
           improved_positions == ImprovedPositions(f, fp)
       IN  /\ FP' = fp
           /\ X' = WherePopulation(improved_positions, XP, X)
           /\ fitness_values' = WhereVector(improved_positions, fp, f)
           /\ model_weights' = LastMaterialized(XP)
           /\ obs' = [Evaluated(Evaluated(obs, f), fp) EXCEPT
                         !.updates = @ + 1, !.accepted = improved_positions]
    /\ pc' = AfterAccept[pc]
    /\ UNCHANGED <<algo, cfg, best_fitness, gen, best_vultures, F, i, XP, SI>>

\* eq_7_and_8: m, the size of the parameter tensor x
TensorSize(s) == PopulationSize * Shapes[s]

\* eq_7_and_8: ms = round(1 + gen / (2 T) * m)
StboMs(g, t, m) ==
    RoundHalfEven(Add(Scale, Mul(Div(ToFloat(g), Mul(2 * Scale, ToFloat(t))), ToFloat(m))))

\* tf.random.shuffle(tf.range(m))[:ms]: ms distinct flat positions of the
\* tensor, all of them when ms > m; the draws offered are the runs of
\* consecutive positions (cyclically), one for each starting position
ShuffleHeads(m, ms) ==
    {{(a + q) % m : q \in 0..((IF ms > m THEN m ELSE ms) - 1)} : a \in 0..(m - 1)}

\* eq_7_and_8 on parameter tensor s: flat position q of x is element
\* (q % size) + 1 of individual q \div size
StboEq7and8(s, x, si, SDi) ==
    [j \in Individuals |-> [k \in Elems(s) |->
        IF (j * Shapes[s] + (k - 1)) \in SDi THEN x[si[j]][k] ELSE x[j][k]]]

\* Phase 2: the proposals of eq_7_and_8
StboImitation ==
    /\ pc = "eq_7_and_8"
    /\ \E SD1 \in ShuffleHeads(TensorSize(1), StboMs(gen, T, TensorSize(1))),
          SD2 \in ShuffleHeads(TensorSize(2), StboMs(gen, T, TensorSize(2))) :
        XP' = [s \in Slots |-> StboEq7and8(s, X[s], SI, <<SD1, SD2>>[s])]
    /\ pc' = "accept_2"
    /\ UNCHANGED <<algo, cfg, model_weights, X, fitness_values, best_fitness, gen,
                   best_vultures, F, i, FP, SI, obs>>

\* eq_10 on one parameter tensor x: clip(x + (lb + r (ub - lb)) / gen, lb, ub)
StboEq10(x, r, g, lb, ub) ==
    [j \in Individuals |-> [k \in DOMAIN x[j] |->
        ClipByValue(Add(x[j][k], Div(Add(lb, Mul(r[j][k], Sub(ub, lb))), ToFloat(g))),
                    lb, ub)]]

\* the draws r of eq_10
Eq10Draws == {500, 750}

\* Phase 3: the proposals of eq_10
StboPractice ==
    /\ pc = "eq_10"
    /\ \E r \in Eq10Draws :
        XP' = [s \in Slots |-> StboEq10(X[s], Full(s, r), gen, cfg.lb, cfg.ub)]
    /\ pc' = "accept_3"
    /\ UNCHANGED <<algo, cfg, model_weights, X, fitness_values, best_fitness, gen,
                   best_vultures, F, i, FP, SI, obs>>

\* lines 167-193: the best fitness, the periodic hooks, the next generation
StboGenEnd ==
    /\ pc = "gen_end"
    /\ best_fitness' = ReduceMin(fitness_values)
    /\ obs' = PeriodicHooks(obs, cfg, gen)
    /\ gen' = gen + 1
    /\ pc' = "loop"
    /\ UNCHANGED <<algo, cfg, model_weights, X, fitness_values,
                   best_vultures, F, i, XP, FP, SI>>

\* ------------------------------------------------------------- the run's end
\* mou.apply_best_solution(model_weights, fn, fitness_values, population, N):
\* the candidate of the lowest fitness is written to model_weights; the call
\* is given the fitness function too, so the fitness it reads is either the
\* vector it is passed or that vector after one more pass over the population
ApplyBestSolution ==
    /\ pc = "apply"
    /\ \E fresh \in BOOLEAN :
        LET fv   == IF fresh THEN PopulationFitness(X) ELSE fitness_values
            best == Candidate(X, ArgMin(fv))
        IN  /\ fitness_values' = fv
            /\ model_weights' = best
            /\ obs' = [(IF fresh THEN Evaluated(obs, fv) ELSE obs) EXCEPT
                          !.applies = @ + 1, !.handed = best]
    /\ pc' = "flush"
    /\ UNCHANGED <<algo, cfg, X, best_fitness, gen,
                   best_vultures, F, i, XP, FP, SI>>

\* the last log and the last save, whatever the frequencies
FinalHooksUnconditional ==
    /\ pc = "flush"
    /\ obs' = [obs EXCEPT !.forced_logs = @ + 1, !.final_saves = @ + 1]
    /\ pc' = "done"
    /\ UNCHANGED <<algo, cfg, model_weights, X, fitness_values, best_fitness, gen,
                   best_vultures, F, i, XP, FP, SI>>

\* the last log, with force_file_write, and the last save
FinalHooks ==
    /\ pc = "flush"
    /\ obs' = [obs EXCEPT
                 !.forced_logs = IF cfg.fitness_log_frequency > 0 THEN @ + 1 ELSE @,
                 !.final_saves = IF cfg.best_individual_save_frequency > 0
                                 THEN @ + 1 ELSE @]
    /\ pc' = "done"
    /\ UNCHANGED <<algo, cfg, model_weights, X, fitness_values, best_fitness, gen,
                   best_vultures, F, i, XP, FP, SI>>

Next ==
    \/ AvoaSetup
    \/ AvoaEvaluate
    \/ AvoaLoopExit
    \/ AvoaHooks
    \/ AvoaStopCheck
    \/ AvoaStep
    \/ AvoaGenEnd
    \/ StboSetup
    \/ StboLoopEnter
    \/ StboLoopExit
    \/ StboUpdateSI
    \/ StboTraining
    \/ StboAccept
    \/ StboImitation
    \/ StboPractice
    \/ StboGenEnd
    \/ ApplyBestSolution
    \/ FinalHooks

Spec == Init /\ [][Next]_vars

\* ----------------------------------------------------------------- claims
AfterLoop == {"apply", "flush", "done"}

StboPhases ==
    {"update_SI", "eq_5", "accept_1", "eq_7_and_8", "accept_2", "eq_10", "accept_3",
     "gen_end"}

\* the statement that assigns best_fitness in a generation is taken
AssignsBestFitness ==
    \/ (algo = "avoa" /\ pc = "loop" /\ pc' = "hooks")
    \/ (algo = "stbo" /\ pc = "gen_end")

\* C1: with a deterministic fitness function the value assigned to best_fitness
\* in generation g+1 is <= the value it held in generation g, in avoa and in stbo
C1_BestFitnessNonIncreasing ==
    [][(ValidConfig(cfg) /\ gen >= 1 /\ AssignsBestFitness)
          => Le(best_fitness', best_fitness)]_vars

\* C2: at termination the candidate handed to apply_best_solution has the lowest
\* fitness any evaluation pass of the run produced
C2_HandedIsBestObserved ==
    (pc = "done" /\ ValidConfig(cfg)) => ModelFitness(obs.handed) = obs.min_seen

\* what C3 says of every state of a run with a positive generation_limit
C3_Bounded ==
    cfg.generation_limit > 0 =>
        /\ obs.generations <= T + 1
        /\ gen <= T + 1
        /\ (pc = "sweep" => ~Lt(best_fitness, cfg.fitness_limit))
        /\ (pc \in StboPhases => Gt(best_fitness, cfg.fitness_limit))
        /\ (pc \in AfterLoop /\ algo = "avoa" =>
               /\ (gen = T + 1 \/ Lt(best_fitness, cfg.fitness_limit))
               /\ obs.updates = PopulationSize * gen
               /\ obs.generations = (IF gen = T + 1 THEN gen ELSE gen + 1))
        /\ (pc \in AfterLoop /\ algo = "stbo" =>
               /\ (gen = T + 1 \/ Le(best_fitness, cfg.fitness_limit))
               /\ obs.updates = 3 * gen
               /\ obs.generations = gen)

\* the statements left in the generation the run is in, at most
C3_LeftInGeneration ==
    CASE pc = "loop"        -> 10 + PopulationSize
      [] pc = "hooks"       -> 9 + PopulationSize
      [] pc = "stop_check"  -> 8 + PopulationSize
      [] pc = "sweep"       -> 1 + PopulationSize - i
      [] pc = "update_SI"   -> 9
      [] pc = "eq_5"        -> 8
      [] pc = "accept_1"    -> 7
      [] pc = "eq_7_and_8"  -> 6
      [] pc = "accept_2"    -> 5
      [] pc = "eq_10"       -> 4
      [] pc = "accept_3"    -> 3
      [] pc = "gen_end"     -> 2

\* the statements left in the run, at most
C3_Left ==
    CASE pc = "start" -> 4 + (T + 2) * (10 + PopulationSize)
      [] pc = "apply" -> 2
      [] pc = "flush" -> 1
      [] pc = "done"  -> 0
      [] OTHER        -> 3 + (T + 1 - gen) * (10 + PopulationSize) + C3_LeftInGeneration

\* a statement can be taken: the one the run is at, whose draws exist
C3_CanStep ==
    \/ pc \in {"start", "loop", "hooks", "stop_check", "accept_1", "accept_2",
               "accept_3", "gen_end", "apply", "flush"}
    \/ (pc = "sweep" /\ i <= PopulationSize)
    \/ (pc = "update_SI" /\ \A j \in Individuals : StboEq4(fitness_values, j) # {})
    \/ (pc = "eq_5" /\ Eq5Draws # {})
    \/ (pc = "eq_7_and_8" /\
            \A s \in Slots : ShuffleHeads(TensorSize(s), StboMs(gen, T, TensorSize(s))) # {})
    \/ (pc = "eq_10" /\ Eq10Draws # {})

\* C3: for a positive generation_limit the run ends (every statement leaves
\* fewer statements to take, and until the end one can be taken), after at most
\* generation_limit + 1 generations; it leaves the loop only at gen = T + 1 or
\* at the check the best fitness has crossed (avoa: <, before the sweep; stbo:
\* <=, before the three phases), and no update runs in a generation whose check
\* has crossed
C3_Termination ==
    /\ [](C3_Bounded)
    /\ [](cfg.generation_limit > 0 => (C3_Left >= 0 /\ (pc = "done" \/ C3_CanStep)))
    /\ [][cfg.generation_limit > 0 => C3_Left' < C3_Left]_vars

\* a run of avoa and a run of stbo that the fitness limit ended before T + 1
C3_Witness ==
    /\ pc = "done"
    /\ cfg.generation_limit > 0
    /\ gen <= T
    /\ obs.generations >= 1

\* what C4 says of one step of update_improved_positions
C4_AcceptStep ==
    \A j \in Individuals :
        /\ FP'[j] = ModelFitness(Candidate(XP, j))
        /\ IF Lt(FP'[j], fitness_values[j])
           THEN /\ Candidate(X', j) = Candidate(XP, j)
                /\ fitness_values'[j] = FP'[j]
           ELSE /\ Candidate(X', j) = Candidate(X, j)
                /\ fitness_values'[j] = fitness_values[j]
        /\ (FP'[j] # NaN =>
               fitness_values'[j] = Minimum(fitness_values[j], FP'[j]))

\* C4: update_improved_positions replaces every parameter tensor of candidate j
\* by the proposal and F[j] by FP[j] when FP[j] < F[j], and leaves all of them
\* alone otherwise (FP[j] = F[j] too): the new F[j] is min(F[j], FP[j])
C4_GreedyAcceptance ==
    [][(pc \in DOMAIN AfterAccept) => (C4_AcceptStep)]_vars

\* after a step that accepted the proposal of one individual and rejected the
\* different proposal of another
C4_Witness ==
    /\ pc \in {"eq_7_and_8", "eq_10", "gen_end"}
    /\ \E j, k \in Individuals :
        /\ obs.accepted[j]
        /\ Candidate(X, j) = Candidate(XP, j)
        /\ fitness_values[j] = FP[j]
        /\ ~obs.accepted[k]
        /\ Candidate(X, k) # Candidate(XP, k)
        /\ Le(fitness_values[k], FP[k])

\* SI[j] is an individual of strictly lower fitness in fv, or j when there is none
InstructorValid(fv, si, j) ==
    \/ Lt(fv[si[j]], fv[j])
    \/ (si[j] = j /\ ~\E k \in Individuals : Lt(fv[k], fv[j]))

\* C5 as stated: where eq_5 and where eq_7_and_8 read SI, SI[j] is valid for the
\* current fitness
C5_InstructorValidWhereUsed ==
    pc \in {"eq_5", "eq_7_and_8"} =>
        \A j \in Individuals : InstructorValid(fitness_values, SI, j)

\* C5 amended: where eq_5 reads SI it is valid for the current fitness; where
\* eq_7_and_8 reads it, it is the same choice, valid for the fitness update_SI saw
C5_InstructorValidAtSelection ==
    /\ pc = "eq_5" =>
          /\ obs.selection_fitness = fitness_values
          /\ \A j \in Individuals : InstructorValid(fitness_values, SI, j)
    /\ pc = "eq_7_and_8" =>
          \A j \in Individuals : InstructorValid(obs.selection_fitness, SI, j)

\* Phase 2 reads an instructor that Phase 1's acceptance has made invalid
C5_Witness ==
    /\ pc = "eq_7_and_8"
    /\ \E j \in Individuals : ~InstructorValid(fitness_values, SI, j)

\* the early stop never triggers
NeverStops == cfg.generation_limit > 0 /\ cfg.fitness_limit = -Inf

\* C6 as stated: with fitness_limit = -infinity, generation_limit + 1 calls of
\* update_population_fitness before result application, in avoa and in stbo
C6_OnePassPerGeneration ==
    (pc = "apply" /\ NeverStops) => obs.evals = T + 1

\* C6 amended: T + 1 calls in avoa; in stbo one call at the start and six in
\* each of the T + 1 generations; the population keeps its size
C6_PassesPerGeneration ==
    (pc = "apply" /\ NeverStops) =>
        /\ obs.evals = (IF algo = "avoa" THEN T + 1 ELSE 1 + 6 * (T + 1))
        /\ obs.generations = T + 1
        /\ \A s \in Slots : DOMAIN X[s] = Individuals

C6_Witness ==
    /\ pc = "apply"
    /\ NeverStops
    /\ algo = "stbo"
    /\ T >= 2
    /\ obs.evals = 1 + 6 * (T + 1)

\* C7: with an invalid configuration the call fails before the loop: no fitness
\* pass, no generation, no update, the target parameters as they were
C7_InvalidConfigFailsFast ==
    ~ValidConfig(cfg) =>
        /\ obs.evals = 0
        /\ obs.generations = 0
        /\ obs.updates = 0
        /\ obs.applies = 0
        /\ model_weights = InitialWeights

\* C8 as stated: at the end of every run one forced log and one final save
C8_FinalHooksAlways ==
    pc = "done" => (obs.forced_logs = 1 /\ obs.final_saves = 1)

\* C8 amended: after the best candidate is applied, one forced log when
\* fitness_log_frequency > 0 and none otherwise, one final save when
\* best_individual_save_frequency > 0 and none otherwise
C8_FinalHooksWhenEnabled ==
    /\ pc = "done" =>
          /\ obs.applies = 1
          /\ obs.forced_logs = (IF cfg.fitness_log_frequency > 0 THEN 1 ELSE 0)
          /\ obs.final_saves = (IF cfg.best_individual_save_frequency > 0 THEN 1 ELSE 0)
    /\ pc # "done" => (obs.forced_logs = 0 /\ obs.final_saves = 0)
    /\ pc = "flush" => obs.applies = 1

C8_Witness ==
    /\ pc = "done"
    /\ cfg.fitness_log_frequency > 0
    /\ cfg.best_individual_save_frequency > 0
    /\ obs.forced_logs = 1
    /\ obs.final_saves = 1

\* the equation C9 names for F and the uniform draw u
C9_Equation(f, u) ==
    IF Abs(f) >= Scale THEN (IF cfg.P1 >= u THEN "eq_6" ELSE "eq_8")
    ELSE IF Abs(f) >= Scale \div 2 /\ Abs(f) < Scale
         THEN (IF cfg.P2 >= u THEN "eq_10" ELSE "eq_13")
         ELSE (IF cfg.P3 >= u THEN "eq_16" ELSE "eq_17")

\* what C9 says of the step for individual i
C9_Step ==
    /\ i' = i + 1
    /\ obs'.eq = C9_Equation(F', obs'.u)
    /\ obs'.updates = obs.updates + 1
    /\ \A j \in Individuals \ {i} : Candidate(X', j) = Candidate(X, j)
    /\ fitness_values' = fitness_values
    /\ best_vultures' = best_vultures

\* C9: the sweep visits the individuals in the order 0 .. N-1, once each; a step
\* applies the one equation that the fresh F and the draw u select, and writes
\* candidate i only: the other candidates, the fitness vector and the two best
\* vultures stay
C9_SweepStep ==
    /\ [](pc = "sweep" => obs.visited = [n \in 1..i |-> n - 1])
    /\ [][(pc = "sweep" /\ i < PopulationSize) => (C9_Step)]_vars
    /\ [][(pc = "sweep" /\ pc' # "sweep") => i = PopulationSize]_vars

\* a step at |F| = 1 that applied Eq. 8 and changed its candidate
C9_Witness ==
    /\ pc = "sweep"
    /\ i >= 1
    /\ Abs(F) = Scale
    /\ obs.eq = "eq_8"
    /\ ValidConfig(cfg)

\* C10: ms of C10, for the m elements of one candidate
C10_Ms == StboMs(gen, T, Cardinality(Cells))

\* C10: the proposal of every individual j is its candidate with ms of its own
\* positions overwritten by the instructor's values, the others as they were
C10_ImitationPerIndividual ==
    (pc = "accept_2" /\ ValidConfig(cfg)) =>
        \A j \in Individuals :
            \E S \in SUBSET Cells :
                /\ Cardinality(S) = C10_Ms
                /\ \A c \in Cells :
                    XP[c[1]][j][c[2]] =
                        (IF c \in S THEN X[c[1]][SI[j]][c[2]] ELSE X[c[1]][j][c[2]])

\* a Phase 3 proposal element is a number (not NaN) inside [lb, ub]
C11_WellDefined(v) == v # NaN /\ Le(cfg.lb, v) /\ Le(v, cfg.ub)

\* C11: eq_10 never divides by gen = 0: where Phase 3 has built its proposals
\* the divisor gen was not 0, and every element of every proposal is a
\* well-defined value inside [lb, ub], in the first generation too
C11_PracticeGuarded ==
    (pc = "accept_3" /\ ValidConfig(cfg)) =>
        /\ gen # 0
        /\ \A j \in Individuals : \A c \in Cells : C11_WellDefined(XP[c[1]][j][c[2]])

====
